---------------------------- MODULE Spec2Model ----------------------------
(***************************************************************************)
(* Model of PhAssoc's two algorithmic cores:                               *)
(*   - src/clustering/utils.py  : ClusterStatistics (add and the reporters)*)
(*   - src/gnn/dataset.py       : min_max_normalize, find_matching_indices *)
(*   - pyocto_models.py         : the statistics.add call site             *)
(*                                                                         *)
(* Python values are tagged records so that None, ints, floats, NaN and a  *)
(* raised exception can be compared with one another.  A float is kept as  *)
(* the exact reduced fraction it stands for; np.round(x, 3) is rounding of *)
(* that fraction to thousandths, half to even.                             *)
(***************************************************************************)
EXTENDS Integers, Sequences, FiniteSets, Bags, TLC

VARIABLES
    statistics,   \* the ClusterStatistics object (pyocto_models.py:55)
    ret,          \* the last call on it: [op, value returned or exception raised]
    completed,    \* number of add calls that returned
    call,         \* arguments of the add call under study (single-call runs)
    swapped,      \* a second, fresh ClusterStatistics fed the swapped labelings
    ds,           \* the dataset: a sequence of samples [y, labels_pred]
    pending,      \* indexes of ds not yet handed to add
    pc,           \* per worker: the line of add it is about to execute
    A,            \* find_matching_indices: rows <<station index, time>>
    S,            \* find_matching_indices: the nearest-stations table
    R,            \* result of find_matching_indices
    tensor,       \* min_max_normalize: the input column (the picks' time offsets)
    normalized_tensor  \* result of min_max_normalize

vars == <<statistics, ret, completed, call, swapped, ds, pending, pc,
          A, S, R, tensor, normalized_tensor>>

---------------------------------------------------------------------------
(* Bounds of the model                                                     *)

MaxAdds == 2        \* add calls in one run of the accumulator
MaxCallLen == 4     \* length of a label sequence in single-call runs
NumSamples == 2     \* samples of the dataset
NumWorkers == 2     \* concurrent workers calling add
MaxPicks == 2       \* picks (rows of A)
NumStations == 2    \* stations (rows of S)

\* the time threshold of find_matching_indices, 0.5e9 ns
TimeThreshold == 500000000

Labels == 0..1
CountValues == {0, 2, 3}

---------------------------------------------------------------------------
(* Python values                                                           *)

None == [kind |-> "None"]
NaN == [kind |-> "nan"]
IntVal(n) == [kind |-> "int", val |-> n]
Raised(e) == [kind |-> "raise", exc |-> e]
Inf(sign) == [kind |-> "inf", sign |-> sign]

Abs(n) == IF n < 0 THEN -n ELSE n

RECURSIVE GCD(_, _)
GCD(a, b) == IF b = 0 THEN a ELSE GCD(b, a % b)

\* the float whose value is num/den (den # 0), as a reduced fraction
Float(num, den) ==
    LET g == GCD(Abs(num), Abs(den))
        s == IF den < 0 THEN -1 ELSE 1
    IN [kind |-> "float", num |-> s * (num \div g), den |-> s * (den \div g)]

IsNumber(x) == x.kind = "float"

FAdd(x, y) ==
    IF IsNumber(x) /\ IsNumber(y)
    THEN Float(x.num * y.den + y.num * x.den, x.den * y.den)
    ELSE NaN

FSub(x, y) ==
    IF IsNumber(x) /\ IsNumber(y)
    THEN Float(x.num * y.den - y.num * x.den, x.den * y.den)
    ELSE NaN

FMul(x, y) ==
    IF IsNumber(x) /\ IsNumber(y)
    THEN Float(x.num * y.num, x.den * y.den)
    ELSE NaN

\* float64 division as numpy and torch do it: x/0 warns and gives nan or inf
FDiv(x, y) ==
    IF ~(IsNumber(x) /\ IsNumber(y)) THEN NaN
    ELSE IF y.num = 0
         THEN IF x.num = 0 THEN NaN
              ELSE Inf(IF x.num > 0 THEN 1 ELSE -1)
         ELSE Float(x.num * y.den, x.den * y.num)

\* num/den (den > 0) rounded to the nearest integer, ties to the even one
RoundHalfEven(num, den) ==
    LET q == num \div den
        r == num - q * den
    IN IF 2 * r < den THEN q
       ELSE IF 2 * r > den THEN q + 1
       ELSE IF q % 2 = 0 THEN q ELSE q + 1

\* np.round(x, 3)
Round3(x) ==
    IF IsNumber(x) THEN Float(RoundHalfEven(1000 * x.num, x.den), 1000)
    ELSE x

RECURSIVE FSum(_)
FSum(seq) ==
    IF seq = <<>> THEN Float(0, 1)
    ELSE FAdd(seq[1], FSum(Tail(seq)))

\* np.mean of a list of floats: nan (with a warning) for the empty list
Mean(seq) ==
    IF seq = <<>> THEN NaN
    ELSE FDiv(FSum(seq), Float(Len(seq), 1))

\* Python truthiness of an optional integer
Truthy(x) == x # None /\ x # IntVal(0)

\* the non-empty sequences over T of length at most n
SeqsUpTo(T, n) == UNION {[1..k -> T] : k \in 1..n}

---------------------------------------------------------------------------
(* sklearn.metrics, as imported by src/clustering/utils.py                 *)

\* pair_confusion_matrix: C[i][j] counts the ordered pairs of distinct
\* samples that are (i = 1: together, i = 0: apart) in labels_true and
\* (j = 1: together, j = 0: apart) in labels_pred
PairCount(labels_true, labels_pred, i, j) ==
    Cardinality({p \in (1..Len(labels_true)) \X (1..Len(labels_true)) :
        /\ p[1] # p[2]
        /\ (labels_true[p[1]] = labels_true[p[2]]) <=> (i = 1)
        /\ (labels_pred[p[1]] = labels_pred[p[2]]) <=> (j = 1)})

\* mutant: the two off-diagonal cells exchanged
PCMTransposed(labels_true, labels_pred) ==
    [i \in 0..1 |-> [j \in 0..1 |-> PairCount(labels_true, labels_pred, j, i)]]

\* mutant: C[0][0] taken as n^2 - C[0][1] - sum_squares, C[1][0] not subtracted
PCMLossy(labels_true, labels_pred) ==
    [i \in 0..1 |-> [j \in 0..1 |->
        IF i = 0 /\ j = 0
        THEN PairCount(labels_true, labels_pred, 0, 0)
             + PairCount(labels_true, labels_pred, 1, 0)
        ELSE PairCount(labels_true, labels_pred, i, j)]]

PCM(labels_true, labels_pred) ==
    [i \in 0..1 |-> [j \in 0..1 |-> PairCount(labels_true, labels_pred, i, j)]]

\* adjusted_rand_score, computed from the pair confusion matrix
ARI(labels_true, labels_pred) ==
    LET C == PCM(labels_true, labels_pred)
        tn == C[0][0]
        fp == C[0][1]
        fn == C[1][0]
        tp == C[1][1]
    IN IF fn = 0 /\ fp = 0 THEN Float(1, 1)
       ELSE Float(2 * (tp * tn - fn * fp),
                  (tp + fn) * (fn + tn) + (tp + fp) * (fp + tn))

---------------------------------------------------------------------------
(* class ClusterStatistics                                                 *)

\* __init__
ClusterStatistics == [_ari |-> <<>>, _pcm |-> <<>>, _perc_eq |-> <<>>]

\* the if of add: the relative count error is recorded when both are truthy
CountError(self_perc_eq, n_true, n_pred) ==
    IF Truthy(n_true) /\ Truthy(n_pred)
    THEN Append(self_perc_eq, Float(Abs(n_true.val - n_pred.val), n_true.val))
    ELSE self_perc_eq

\* the three statements of add
Line18(self, labels, labels_pred) ==
    [self EXCEPT !._ari = Append(@, ARI(labels, labels_pred))]

Line19(self, labels, labels_pred) ==
    [self EXCEPT !._pcm = Append(@, PCM(labels, labels_pred))]

Line20(self, n_true, n_pred) ==
    [self EXCEPT !._perc_eq = CountError(@, n_true, n_pred)]

\* mutant: the lists are assigned, not appended to
addAssigning(self, labels, labels_pred, n_true, n_pred) ==
    IF Len(labels) # Len(labels_pred)
    THEN [self |-> self, value |-> Raised("ValueError")]
    ELSE [self |-> Line20(Line19(Line18(ClusterStatistics, labels, labels_pred),
                                 labels, labels_pred), n_true, n_pred),
          value |-> None]

\* add: the object after the call and what the call returned or raised.
\* sklearn rejects labelings of different lengths before anything is appended.
\* (Label sequences are non-empty throughout: a sample holds at least one pick.)
add(self, labels, labels_pred, n_true, n_pred) ==
    IF Len(labels) # Len(labels_pred)
    THEN [self |-> self, value |-> Raised("ValueError")]
    ELSE [self |-> Line20(Line19(Line18(self, labels, labels_pred),
                                 labels, labels_pred), n_true, n_pred),
          value |-> None]

ari(self) == Round3(Mean(self._ari))

Column(self_pcm, i, j) == [k \in 1..Len(self_pcm) |-> Float(self_pcm[k][i][j], 1)]

\* mutant: the last recorded matrix instead of the mean of all
pcmOfLast(self) ==
    IF self._pcm = <<>> THEN NaN
    ELSE [kind |-> "matrix",
          m |-> [i \in 0..1 |-> [j \in 0..1 |->
                    Round3(Float(self._pcm[Len(self._pcm)][i][j], 1))]]]

\* pcm: np.mean over axis 0 of an empty list is the scalar nan
pcm(self) ==
    IF self._pcm = <<>> THEN NaN
    ELSE [kind |-> "matrix",
          m |-> [i \in 0..1 |-> [j \in 0..1 |->
                    Round3(Mean(Column(self._pcm, i, j)))]]]

\* indexing the scalar nan with [i, j] raises IndexError
precision(self) ==
    LET p == pcm(self)
    IN IF p.kind # "matrix" THEN Raised("IndexError")
       ELSE Round3(FDiv(p.m[1][1], FAdd(p.m[0][1], p.m[1][1])))

recall(self) ==
    LET p == pcm(self)
    IN IF p.kind # "matrix" THEN Raised("IndexError")
       ELSE Round3(FDiv(p.m[1][1], FAdd(p.m[1][0], p.m[1][1])))

accuracy(self) ==
    LET p == pcm(self)
    IN IF p.kind # "matrix" THEN Raised("IndexError")
       ELSE Round3(FDiv(FAdd(p.m[0][0], p.m[1][1]),
                        FAdd(FAdd(p.m[0][0], p.m[0][1]),
                             FAdd(p.m[1][0], p.m[1][1]))))

\* mutant: the empty-list guard dropped
perc_eqUnguarded(self) ==
    Round3(FMul(Float(100, 1), FSub(Float(1, 1), Mean(self._perc_eq))))

perc_eq(self) ==
    IF self._perc_eq = <<>> THEN None
    ELSE Round3(FMul(Float(100, 1), FSub(Float(1, 1), Mean(self._perc_eq))))

---------------------------------------------------------------------------
(* Inputs                                                                  *)

\* the labelings of a sample in accumulator runs, up to the names of the
\* labels: one pick; two picks of one cluster; two picks of two clusters
LabelSeqs == {<<0>>, <<0, 0>>, <<0, 1>>}
CountArgs == {None} \cup {IntVal(n) : n \in CountValues}

NoCall == [labels |-> <<>>, labels_pred |-> <<>>, n_true |-> None, n_pred |-> None]
NoRet == [op |-> "none", value |-> None]

InitIdle ==
    /\ statistics = ClusterStatistics
    /\ ret = NoRet
    /\ completed = 0
    /\ call = NoCall
    /\ swapped = ClusterStatistics
    /\ ds = <<>>
    /\ pending = {}
    /\ pc = <<>>
    /\ A = <<>>
    /\ S = <<>>
    /\ R = None
    /\ tensor = <<>>
    /\ normalized_tensor = None

---------------------------------------------------------------------------
(* Spec: one ClusterStatistics, any sequence of add and reporter calls     *)

Init == InitIdle

Add ==
    /\ completed < MaxAdds
    /\ \E labels \in LabelSeqs, labels_pred \in LabelSeqs,
          n_true \in CountArgs, n_pred \in CountArgs :
         LET r == add(statistics, labels, labels_pred, n_true, n_pred)
         IN /\ statistics' = r.self
            /\ ret' = [op |-> "add", value |-> r.value]
            /\ completed' = IF r.value = None THEN completed + 1 ELSE completed
    /\ UNCHANGED <<call, swapped, ds, pending, pc, A, S, R, tensor, normalized_tensor>>

Report(op, value) ==
    /\ ret' = [op |-> op, value |-> value]
    /\ UNCHANGED <<statistics, completed, call, swapped, ds, pending, pc,
                   A, S, R, tensor, normalized_tensor>>

CallAri == Report("ari", ari(statistics))
CallPcm == Report("pcm", pcm(statistics))
CallPrecision == Report("precision", precision(statistics))
CallRecall == Report("recall", recall(statistics))
CallAccuracy == Report("accuracy", accuracy(statistics))
CallPercEq == Report("perc_eq", perc_eq(statistics))

Reporter ==
    \/ CallAri
    \/ CallPcm
    \/ CallPrecision
    \/ CallRecall
    \/ CallAccuracy
    \/ CallPercEq

Next ==
    \/ Add
    \/ Reporter

Spec == Init /\ [][Next]_vars

---------------------------------------------------------------------------
(* SpecCall: a script that makes one add call with given arguments on a    *)
(* fresh object, then the same call with the two labelings swapped on a    *)
(* second fresh object, then prints reporters of the first (the order of   *)
(* pyocto_models.py: all adds, then the report)                            *)

CallSeqs == SeqsUpTo(Labels, MaxCallLen)

InitCall ==
    /\ statistics = ClusterStatistics
    /\ ret = NoRet
    /\ completed = 0
    /\ call \in {c \in [labels : CallSeqs, labels_pred : CallSeqs,
                        n_true : CountArgs, n_pred : CountArgs] :
                    Len(c.labels) = Len(c.labels_pred)}
    /\ swapped = ClusterStatistics
    /\ ds = <<>>
    /\ pending = {}
    /\ pc = <<>>
    /\ A = <<>>
    /\ S = <<>>
    /\ R = None
    /\ tensor = <<>>
    /\ normalized_tensor = None

AddCall ==
    /\ completed = 0
    /\ LET r == add(statistics, call.labels, call.labels_pred,
                    call.n_true, call.n_pred)
       IN /\ statistics' = r.self
          /\ ret' = [op |-> "add", value |-> r.value]
          /\ completed' = IF r.value = None THEN 1 ELSE 0
    /\ UNCHANGED <<call, swapped, ds, pending, pc, A, S, R, tensor, normalized_tensor>>

AddSwapped ==
    /\ completed = 1
    /\ swapped = ClusterStatistics
    /\ swapped' = add(swapped, call.labels_pred, call.labels,
                      call.n_true, call.n_pred).self
    /\ UNCHANGED <<statistics, ret, completed, call, ds, pending, pc,
                   A, S, R, tensor, normalized_tensor>>

NextCall ==
    \/ AddCall
    \/ AddSwapped
    \/ (swapped # ClusterStatistics /\ Reporter)

SpecCall == InitCall /\ [][NextCall]_vars

---------------------------------------------------------------------------
(* The call site of pyocto_models.py: one add per sample of the dataset,   *)
(* the event counts taken from the labelings                               *)

Range(f) == {f[x] : x \in DOMAIN f}

Samples == {d \in [y : LabelSeqs, labels_pred : LabelSeqs] :
                Len(d.y) = Len(d.labels_pred)}

\* len(sample.y.unique()) - 1 and len(np.unique(labels_pred)) - 1
NTrue(sample) == IntVal(Cardinality(Range(sample.y)) - 1)
NPred(sample) == IntVal(Cardinality(Range(sample.labels_pred)) - 1)

AddOfSample(self, sample) ==
    add(self, sample.y, sample.labels_pred, NTrue(sample), NPred(sample))

---------------------------------------------------------------------------
(* SpecOrder: the samples of a dataset are handed to add in any order,     *)
(* then the reporters are printed                                          *)

InitOrder ==
    /\ statistics = ClusterStatistics
    /\ ret = NoRet
    /\ completed = 0
    /\ call = NoCall
    /\ swapped = ClusterStatistics
    /\ ds \in [1..NumSamples -> Samples]
    /\ pending = 1..NumSamples
    /\ pc = <<>>
    /\ A = <<>>
    /\ S = <<>>
    /\ R = None
    /\ tensor = <<>>
    /\ normalized_tensor = None

AddSample ==
    \E i \in pending :
        LET r == AddOfSample(statistics, ds[i])
        IN /\ statistics' = r.self
           /\ ret' = [op |-> "add", value |-> r.value]
           /\ completed' = completed + 1
           /\ pending' = pending \ {i}
           /\ UNCHANGED <<call, swapped, ds, pc, A, S, R, tensor, normalized_tensor>>

NextOrder ==
    \/ AddSample
    \/ (pending = {} /\ Reporter)

SpecOrder == InitOrder /\ [][NextOrder]_vars

---------------------------------------------------------------------------
(* SpecConc: each worker calls add once, on its own sample, on the shared  *)
(* object.  add holds no lock; a worker can be preempted between any two   *)
(* of its statements.                                                      *)

Workers == 1..NumWorkers

InitConc ==
    /\ statistics = ClusterStatistics
    /\ ret = NoRet
    /\ completed = 0
    /\ call = NoCall
    /\ swapped = ClusterStatistics
    /\ ds \in [Workers -> Samples]
    /\ pending = {}
    /\ pc = [w \in Workers |-> "L18"]
    /\ A = <<>>
    /\ S = <<>>
    /\ R = None
    /\ tensor = <<>>
    /\ normalized_tensor = None

WorkerLine18(w) ==
    /\ pc[w] = "L18"
    /\ statistics' = Line18(statistics, ds[w].y, ds[w].labels_pred)
    /\ pc' = [pc EXCEPT ![w] = "L19"]
    /\ UNCHANGED <<ret, completed, call, swapped, ds, pending,
                   A, S, R, tensor, normalized_tensor>>

WorkerLine19(w) ==
    /\ pc[w] = "L19"
    /\ statistics' = Line19(statistics, ds[w].y, ds[w].labels_pred)
    /\ pc' = [pc EXCEPT ![w] = "L20"]
    /\ UNCHANGED <<ret, completed, call, swapped, ds, pending,
                   A, S, R, tensor, normalized_tensor>>

WorkerLine20(w) ==
    /\ pc[w] = "L20"
    /\ statistics' = Line20(statistics, NTrue(ds[w]), NPred(ds[w]))
    /\ pc' = [pc EXCEPT ![w] = "done"]
    /\ ret' = [op |-> "add", value |-> None]
    /\ completed' = completed + 1
    /\ UNCHANGED <<call, swapped, ds, pending, A, S, R, tensor, normalized_tensor>>

NextConc ==
    \E w \in Workers :
        \/ WorkerLine18(w)
        \/ WorkerLine19(w)
        \/ WorkerLine20(w)

SpecConc == InitConc /\ [][NextConc]_vars

---------------------------------------------------------------------------
(* src/gnn/dataset.py                                                      *)

RECURSIVE SeqMin(_)
SeqMin(seq) ==
    IF Len(seq) = 1 THEN seq[1]
    ELSE LET m == SeqMin(Tail(seq)) IN IF seq[1] < m THEN seq[1] ELSE m

RECURSIVE SeqMax(_)
SeqMax(seq) ==
    IF Len(seq) = 1 THEN seq[1]
    ELSE LET m == SeqMax(Tail(seq)) IN IF seq[1] > m THEN seq[1] ELSE m

\* min_max_normalize: torch's min() of an empty tensor raises; the division
\* is true division, which gives nan for 0/0 and raises nothing
min_max_normalize(t) ==
    IF t = <<>> THEN Raised("RuntimeError")
    ELSE LET min_val == SeqMin(t)
             max_val == SeqMax(t)
         IN [kind |-> "tensor",
             values |-> [k \in 1..Len(t) |->
                 FDiv(Float(t[k] - min_val, 1), Float(max_val - min_val, 1))]]

\* np.where(A[:, 0] == val)[0]: the positions (from 0) of the picks of a
\* station, ascending
RECURSIVE Where(_, _, _)
Where(rows, val, k) ==
    IF k > Len(rows) THEN <<>>
    ELSE (IF rows[k][1] = val THEN <<k - 1>> ELSE <<>>) \o Where(rows, val, k + 1)

\* value_to_indices.get(s_value, [])
value_to_indices(rows, s_value) ==
    IF \E k \in 1..Len(rows) : rows[k][1] = s_value
    THEN Where(rows, s_value, 1)
    ELSE <<>>

\* mutant: diff <= 0.5e9
CloseInTimeInclusive(rows, idx, match_idx) ==
    Abs(rows[idx + 1][2] - rows[match_idx + 1][2]) <= TimeThreshold

\* diff = np.abs(A[idx, 1] - A[match_idx, 1]); diff < 0.5e9
CloseInTime(rows, idx, match_idx) ==
    Abs(rows[idx + 1][2] - rows[match_idx + 1][2]) < TimeThreshold

\* for match_idx in matching_indices
RECURSIVE MatchLoop(_, _, _)
MatchLoop(rows, idx, matching_indices) ==
    IF matching_indices = <<>> THEN <<>>
    ELSE (IF CloseInTime(rows, idx, Head(matching_indices))
          THEN << <<idx, Head(matching_indices)>> >>
          ELSE <<>>)
         \o MatchLoop(rows, idx, Tail(matching_indices))

\* for s_value in row_indices
RECURSIVE RowLoop(_, _, _)
RowLoop(rows, idx, row_indices) ==
    IF row_indices = <<>> THEN <<>>
    ELSE MatchLoop(rows, idx, value_to_indices(rows, Head(row_indices)))
         \o RowLoop(rows, idx, Tail(row_indices))

\* for idx, a_o in enumerate(A[:, 0])
RECURSIVE PickLoop(_, _, _)
PickLoop(rows, table, idx) ==
    IF idx >= Len(rows) THEN <<>>
    ELSE RowLoop(rows, idx, table[rows[idx + 1][1]])
         \o PickLoop(rows, table, idx + 1)

\* find_matching_indices: the list of pairs as an array of shape (2, j)
find_matching_indices(rows, table) ==
    LET result == PickLoop(rows, table, 0)
    IN [kind |-> "ndarray",
        rows |-> << [k \in 1..Len(result) |-> result[k][1]],
                    [k \in 1..Len(result) |-> result[k][2]] >>]

---------------------------------------------------------------------------
(* SpecGraph: find_matching_indices and min_max_normalize applied to the   *)
(* picks of one sample                                                     *)

Stations == 0..(NumStations - 1)
Times == {0, TimeThreshold - 1, TimeThreshold}

\* rows of k distinct station indexes
NeighborRows(k) ==
    {row \in [1..k -> Stations] :
        \A a \in 1..k : \A b \in 1..k : a # b => row[a] # row[b]}

NeighborTables == UNION {[Stations -> NeighborRows(k)] : k \in 1..NumStations}

PickSeqs == UNION {[1..n -> Stations \X Times] : n \in 0..MaxPicks}

\* arrivals['time'] - arrivals['time'].min()
TimeOffsets(rows) ==
    IF rows = <<>> THEN <<>>
    ELSE LET times == [k \in 1..Len(rows) |-> rows[k][2]]
         IN [k \in 1..Len(rows) |-> times[k] - SeqMin(times)]

InitGraph ==
    /\ statistics = ClusterStatistics
    /\ ret = NoRet
    /\ completed = 0
    /\ call = NoCall
    /\ swapped = ClusterStatistics
    /\ ds = <<>>
    /\ pending = {}
    /\ pc = <<>>
    /\ A \in PickSeqs
    /\ S \in NeighborTables
    /\ R = None
    /\ tensor = TimeOffsets(A)
    /\ normalized_tensor = None

FindMatchingIndices ==
    /\ R = None
    /\ R' = find_matching_indices(A, S)
    /\ UNCHANGED <<statistics, ret, completed, call, swapped, ds, pending, pc,
                   A, S, tensor, normalized_tensor>>

MinMaxNormalize ==
    /\ normalized_tensor = None
    /\ normalized_tensor' = min_max_normalize(tensor)
    /\ UNCHANGED <<statistics, ret, completed, call, swapped, ds, pending, pc,
                   A, S, R, tensor>>

NextGraph ==
    \/ FindMatchingIndices
    \/ MinMaxNormalize

SpecGraph == InitGraph /\ [][NextGraph]_vars

---------------------------------------------------------------------------
(* Claims about ClusterStatistics under Spec                               *)

IsPrefix(s, t) == Len(s) <= Len(t) /\ SubSeq(t, 1, Len(s)) = s

C2_Lengths ==
    /\ Len(statistics._ari) = completed
    /\ Len(statistics._pcm) = completed

C2_Step ==
    /\ IsPrefix(statistics._ari, statistics'._ari)
    /\ IsPrefix(statistics._pcm, statistics'._pcm)
    /\ IsPrefix(statistics._perc_eq, statistics'._perc_eq)
    /\ ret'.op # "add" => statistics' = statistics

\* C2: ClusterStatistics is strictly additive.  In every state the lists of
\* agreement scalars and of confusion matrices are as long as the number of
\* completed add calls; every step keeps what the three lists held as a
\* prefix of what they hold next; a reporter call leaves them unchanged.
C2_StrictlyAdditive == [](C2_Lengths) /\ [][C2_Step]_vars

\* a reporter is called after two adds, the second of which recorded a count error
C2_Witness ==
    /\ completed = 2
    /\ ret.op = "recall"
    /\ Len(statistics._perc_eq) = 1

RatioOps == {"precision", "recall", "accuracy"}

\* the denominator of the ratio the reporter op divides by, on the mean matrix
Denominator(op, p) ==
    CASE op = "precision" -> FAdd(p.m[0][1], p.m[1][1])
      [] op = "recall" -> FAdd(p.m[1][0], p.m[1][1])
      [] op = "accuracy" -> FAdd(FAdd(p.m[0][0], p.m[0][1]),
                                 FAdd(p.m[1][0], p.m[1][1]))

\* C5: precision, recall and accuracy guard the zero denominator: called on
\* an accumulator whose mean matrix makes the denominator zero, they return
\* a defined value (a number, or an explicit "undefined"), never NaN or an
\* exception.
C5_ZeroDenominatorGuarded ==
    (/\ ret.op \in RatioOps
     /\ statistics._pcm # <<>>
     /\ Denominator(ret.op, pcm(statistics)) = Float(0, 1))
    => ret.value.kind \in {"float", "None"}

\* |x - y| <= 1/2000 for floats x, y
WithinHalfThousandth(x, y) ==
    2000 * Abs(x.num * y.den - y.num * x.den) <= x.den * y.den

\* C10: perc_eq returns None exactly when no count-error sample has been
\* recorded; otherwise it returns a number with 3 decimals that is
\* 100 x (1 - mean of the recorded samples) to within rounding, and after a
\* single add that recorded 1/3 (n_true = 3, n_pred = 2) it returns 66.667.
C10_PercEq ==
    ret.op = "perc_eq" =>
        /\ (ret.value = None) <=> (statistics._perc_eq = <<>>)
        /\ statistics._perc_eq # <<>> =>
            /\ ret.value.kind = "float"
            /\ 1000 % ret.value.den = 0
            /\ WithinHalfThousandth(ret.value,
                   FMul(Float(100, 1),
                        FSub(Float(1, 1), Mean(statistics._perc_eq))))
        /\ (completed = 1 /\ statistics._perc_eq = <<Float(1, 3)>>)
            => ret.value = Float(66667, 1000)

\* perc_eq is called after one add that recorded the count error 1/3
C10_Witness ==
    /\ ret.op = "perc_eq"
    /\ completed = 1
    /\ statistics._perc_eq = <<Float(1, 3)>>
    /\ ret.value = Float(66667, 1000)

---------------------------------------------------------------------------
(* Claims about a single add call under SpecCall                           *)

\* C3: an add call records exactly one count-error sample, |n_true - n_pred|
\* / n_true, whenever n_true and n_pred are both supplied and n_true is not
\* zero (n_pred = 0 included); otherwise it records none, raises nothing and
\* still records the agreement scalar and the confusion matrix.
C3_CountErrorRecorded ==
    ret.op = "add" =>
        /\ ret.value = None
        /\ Len(statistics._ari) = 1
        /\ Len(statistics._pcm) = 1
        /\ IF call.n_true # None /\ call.n_pred # None /\ call.n_true # IntVal(0)
           THEN statistics._perc_eq =
                    <<Float(Abs(call.n_true.val - call.n_pred.val), call.n_true.val)>>
           ELSE statistics._perc_eq = <<>>

C4_Example ==
    /\ call.labels = <<0, 0, 1, 1>>
    /\ call.labels_pred = <<0, 0, 0, 1>>
    /\ completed = 1

\* the recorded matrix counts ordered pairs: each unordered pair twice
UnorderedPairs(same_true, same_pred) ==
    statistics._pcm[1][same_true][same_pred] \div 2

PCMRows(tn, fp, fn, tp) ==
    [i \in 0..1 |-> [j \in 0..1 |->
        IF i = 0 THEN (IF j = 0 THEN tn ELSE fp) ELSE (IF j = 0 THEN fn ELSE tp)]]

\* C4 as stated: after add([0,0,1,1], [0,0,0,1]) on a fresh accumulator the
\* unordered pair counts are same/same 1, same-true/diff-pred 0,
\* diff-true/same-pred 1, diff/diff 4, and precision() = 0.5,
\* recall() = 1.0, accuracy() = 0.833.
C4_AsStated ==
    C4_Example =>
        /\ UnorderedPairs(1, 1) = 1
        /\ UnorderedPairs(1, 0) = 0
        /\ UnorderedPairs(0, 1) = 1
        /\ UnorderedPairs(0, 0) = 4
        /\ ret.op = "precision" => ret.value = Float(1, 2)
        /\ ret.op = "recall" => ret.value = Float(1, 1)
        /\ ret.op = "accuracy" => ret.value = Float(833, 1000)

\* C4 amended: after add([0,0,1,1], [0,0,0,1]) on a fresh accumulator the
\* unordered pair counts are same/same 1, same-true/diff-pred 1,
\* diff-true/same-pred 2, diff/diff 2 (recorded as the ordered-pair counts
\* 2, 2, 4, 4), and precision() = 0.333, recall() = 0.5, accuracy() = 0.5.
C4_Amended ==
    C4_Example =>
        /\ UnorderedPairs(1, 1) = 1
        /\ UnorderedPairs(1, 0) = 1
        /\ UnorderedPairs(0, 1) = 2
        /\ UnorderedPairs(0, 0) = 2
        /\ statistics._pcm = <<PCMRows(4, 4, 2, 2)>>
        /\ ret.op = "precision" => ret.value = Float(333, 1000)
        /\ ret.op = "recall" => ret.value = Float(1, 2)
        /\ ret.op = "accuracy" => ret.value = Float(1, 2)

\* accuracy() has been called after the example add
C4_Witness ==
    /\ C4_Example
    /\ ret = [op |-> "accuracy", value |-> Float(1, 2)]

BothAdded == completed = 1 /\ swapped # ClusterStatistics

\* C6 as stated: add(a, b) and add(b, a) on fresh accumulators record
\* identical confusion matrices, hence the same accuracy and agreement score.
C6_AsStated ==
    BothAdded =>
        /\ swapped._pcm = statistics._pcm
        /\ accuracy(swapped) = accuracy(statistics)
        /\ swapped._ari = statistics._ari

Transpose(C) == [i \in 0..1 |-> [j \in 0..1 |-> C[j][i]]]

\* C6 amended: add(a, b) and add(b, a) on fresh accumulators record
\* confusion matrices that are transposes of each other (equal diagonals,
\* off-diagonal cells exchanged); accuracy() and the agreement score are the
\* same for both, and precision() of one is recall() of the other.
C6_Amended ==
    BothAdded =>
        /\ swapped._pcm = <<Transpose(statistics._pcm[1])>>
        /\ accuracy(swapped) = accuracy(statistics)
        /\ swapped._ari = statistics._ari
        /\ precision(swapped) = recall(statistics)
        /\ recall(swapped) = precision(statistics)

\* both adds are done and the recorded matrix is not symmetric
C6_Witness ==
    /\ BothAdded
    /\ statistics._pcm[1][0][1] # statistics._pcm[1][1][0]
    /\ swapped._pcm # statistics._pcm

---------------------------------------------------------------------------
(* Claims about the order of add calls                                     *)

RECURSIVE AddAll(_, _, _)
\* the object after the samples ds[i..] were added in index order
AddAll(self, samples, i) ==
    IF i > Len(samples) THEN self
    ELSE AddAll(AddOfSample(self, samples[i]).self, samples, i + 1)

InIndexOrder == AddAll(ClusterStatistics, ds, 1)

BagOf(seq) == [x \in Range(seq) |-> Cardinality({k \in DOMAIN seq : seq[k] = x})]

\* C8: the aggregate statistics do not depend on the order of the add calls.
\* Whatever order the samples of a dataset were added in, the accumulator
\* holds the same multisets of confusion matrices, agreement scalars and
\* count-error samples as after adding them in index order, and every
\* reporter returns the same value (exact arithmetic).
C8_OrderIndependent ==
    pending = {} /\ ds # <<>> =>
        /\ BagOf(statistics._pcm) = BagOf(InIndexOrder._pcm)
        /\ BagOf(statistics._ari) = BagOf(InIndexOrder._ari)
        /\ BagOf(statistics._perc_eq) = BagOf(InIndexOrder._perc_eq)
        /\ pcm(statistics) = pcm(InIndexOrder)
        /\ ari(statistics) = ari(InIndexOrder)
        /\ precision(statistics) = precision(InIndexOrder)
        /\ recall(statistics) = recall(InIndexOrder)
        /\ accuracy(statistics) = accuracy(InIndexOrder)
        /\ perc_eq(statistics) = perc_eq(InIndexOrder)

\* all samples were added, in another order than the index order, and it shows
C8_Witness ==
    /\ pending = {}
    /\ ds # <<>>
    /\ statistics._pcm # InIndexOrder._pcm
    /\ Len(statistics._perc_eq) = 1

PartWay(w) ==
    \/ pc[w] = "L19"
    \/ pc[w] = "L20" /\ Truthy(NTrue(ds[w])) /\ Truthy(NPred(ds[w]))

\* C7: the appends of one add call are one critical section: no state is
\* reachable in which two add calls are both part-way through their appends.
C7_AddIsCriticalSection ==
    \A w1 \in DOMAIN pc : \A w2 \in DOMAIN pc :
        w1 # w2 => ~(PartWay(w1) /\ PartWay(w2))

---------------------------------------------------------------------------
(* Claims about the graph builder under SpecGraph                          *)

Picks == 0..(Len(A) - 1)

\* pick j's station is listed for pick i's station, and they are close in time
Eligible(i, j) ==
    /\ \E c \in DOMAIN S[A[i + 1][1]] : S[A[i + 1][1]][c] = A[j + 1][1]
    /\ Abs(A[i + 1][2] - A[j + 1][2]) < TimeThreshold

Occurrences(i, j) ==
    Cardinality({k \in DOMAIN R.rows[1] : R.rows[1][k] = i /\ R.rows[2][k] = j})

\* C1: find_matching_indices returns exactly the directed pairs (i, j) with
\* station(j) in S[station(i)] and |time_i - time_j| < 0.5e9: every returned
\* pair is one of them, each of them is returned exactly once ((i, j) and
\* (j, i) both, when both qualify), and no picks give the empty edge list.
C1_ExactlyEligiblePairs ==
    R # None =>
        /\ R.kind = "ndarray"
        /\ Len(R.rows[1]) = Len(R.rows[2])
        /\ \A k \in DOMAIN R.rows[1] :
            R.rows[1][k] \in Picks /\ R.rows[2][k] \in Picks
        /\ \A i \in Picks : \A j \in Picks :
            Occurrences(i, j) = IF Eligible(i, j) THEN 1 ELSE 0
        /\ A = <<>> => R.rows = << <<>>, <<>> >>

\* the result holds a pair of picks just under the threshold apart, and not
\* the reverse pair, whose station is not listed
C1_Witness ==
    /\ R # None
    /\ \E i \in Picks : \E j \in Picks :
        /\ i # j
        /\ Abs(A[i + 1][2] - A[j + 1][2]) = TimeThreshold - 1
        /\ Occurrences(i, j) = 1
        /\ Occurrences(j, i) = 0

IsConstant(t) == t # <<>> /\ \A k \in DOMAIN t : t[k] = t[1]

InUnitInterval(x) == x.kind = "float" /\ 0 <= x.num /\ x.num <= x.den

\* C9: min_max_normalize of a constant column (max = min, as for every
\* column of a single-pick sample) returns a defined value with every
\* element in [0, 1]; it neither fails nor produces NaN.
C9_ConstantColumnDefined ==
    (normalized_tensor # None /\ IsConstant(tensor)) =>
        /\ normalized_tensor.kind = "tensor"
        /\ \A k \in DOMAIN normalized_tensor.values :
            InUnitInterval(normalized_tensor.values[k])

=============================================================================
